---- MODULE Spec2Model ----
(***************************************************************************)
(* A model of main.py: the README scraper with its cache file, the         *)
(* branch-name parser, the shell runner and the agent read loop.           *)
(*                                                                         *)
(* Text.  A Python str is modelled as a sequence of lexemes.  A lexeme is  *)
(* a short literal piece of text: a line feed, a carriage return, a blank, *)
(* a hyphen, a markup tag, the literal "$ jira", or a word.  No word is a  *)
(* part of another lexeme, so splitting, stripping and prefix tests on the *)
(* lexeme sequence agree with the same operations on the characters.       *)
(***************************************************************************)
EXTENDS Integers, Sequences, FiniteSets, TLC

VARIABLES
    linesep,            \* os.linesep of the platform the process runs on
    cacheExists,        \* whether CACHE_FILE exists
    cacheContent,       \* the content of CACHE_FILE when it exists
    getCount,           \* number of requests.get calls made so far
    writeCount,         \* number of times CACHE_FILE was opened for writing
    cachedBody,         \* the response text the program wrote to CACHE_FILE
    lastFetch,          \* record of the latest fetch_jira_cli_readme call
    pc,                 \* position of the read loop
    user_prompt,        \* the console line being processed
    intermediate_steps, \* (tool call, observation) pairs of the agent run
    pending,            \* tool calls of the model's response not yet run
    iterations,         \* AgentExecutor's iteration counter
    modelInput,         \* what the latest model call was given
    executedSinceRead,  \* tools run since the latest console read
    fnState,            \* "ready" / "returned" / "raised" of a function call
    fnArgs,             \* the arguments of the function call
    fnResult            \* what the function call returned

vars == <<linesep, cacheExists, cacheContent, getCount, writeCount, cachedBody,
          lastFetch, pc, user_prompt, intermediate_steps, pending, iterations,
          modelInput, executedSinceRead, fnState, fnArgs, fnResult>>

cacheVars == <<linesep, cacheExists, cacheContent, getCount, writeCount,
               cachedBody, lastFetch>>
agentVars == <<pc, user_prompt, intermediate_steps, pending, iterations,
               modelInput, executedSinceRead>>
fnVars    == <<fnState, fnArgs, fnResult>>

----------------------------------------------------------------------------
(* Bounds of the model. *)

MaxLen == 4          \* longest branch name, in lexemes
MaxDocLen == 4       \* longest HTML document, in lexemes
MaxOut == 2          \* longest stdout / stderr of a command, in lexemes
MaxIterations == 2   \* stands for AgentExecutor.max_iterations
MaxSteps == 2        \* most tool calls asked for within one prompt
MaxGets == 2         \* most network GETs in one behaviour

----------------------------------------------------------------------------
(* Lexemes. *)

LF == "\n"
CR == "\r"
SP == " "
HYPHEN == "-"
PFX == "$ jira"
ArtOpen == "<article class=\"markdown-body\">"
ArtOther == "<article class=\"toc\">"
ArtClose == "</article>"
Whitespace == {LF, CR, SP}
ArticleOpenTags == {ArtOpen, ArtOther}
MarkupTags == {ArtOpen, ArtOther, ArtClose}

SeqsUpTo(S, n) == UNION {[1..k -> S] : k \in 0..n}

\* Before the first call: no response, no fetch, no model input.
NoResponse == [kind |-> "none", status_code |-> 0, text |-> <<>>]
NoFetch == [called |-> FALSE, had_file |-> FALSE, response |-> NoResponse,
            ret |-> <<>>, gets |-> 0]
NoInput == [input |-> <<>>, git_jira_agent |-> <<>>]

\* The read loop and the cache before anything has run: used where a function
\* is examined on its own.
LoopIdle ==
    /\ linesep = <<LF>> /\ cacheExists = FALSE /\ cacheContent = <<>>
    /\ getCount = 0 /\ writeCount = 0 /\ cachedBody = <<>>
    /\ lastFetch = NoFetch
    /\ pc = "Idle" /\ user_prompt = <<>> /\ intermediate_steps = <<>>
    /\ pending = <<>> /\ iterations = 0 /\ modelInput = NoInput
    /\ executedSinceRead = 0

----------------------------------------------------------------------------
(* Python str operations. *)

\* s.startswith(p)
StartsWith(s, p) == Len(s) >= Len(p) /\ SubSeq(s, 1, Len(p)) = p

\* s.strip(): leading and trailing whitespace removed
RECURSIVE LStrip(_)
LStrip(s) == IF s # <<>> /\ Head(s) \in Whitespace THEN LStrip(Tail(s)) ELSE s

RECURSIVE RStrip(_)
RStrip(s) ==
    IF s # <<>> /\ s[Len(s)] \in Whitespace
    THEN RStrip(SubSeq(s, 1, Len(s) - 1)) ELSE s

Strip(s) == RStrip(LStrip(s))

\* s.split(d) for a one-lexeme separator d: always at least one segment
RECURSIVE SplitFrom(_, _, _)
SplitFrom(s, d, cur) ==
    IF s = <<>> THEN <<cur>>
    ELSE IF Head(s) = d THEN <<cur>> \o SplitFrom(Tail(s), d, <<>>)
    ELSE SplitFrom(Tail(s), d, Append(cur, Head(s)))

Split(s, d) == SplitFrom(s, d, <<>>)

\* d.join(parts)
RECURSIVE Join(_, _)
Join(parts, d) ==
    IF parts = <<>> THEN <<>>
    ELSE IF Len(parts) = 1 THEN parts[1]
    ELSE parts[1] \o <<d>> \o Join(Tail(parts), d)

\* parts[:n]
Take(parts, n) == SubSeq(parts, 1, IF Len(parts) < n THEN Len(parts) ELSE n)

----------------------------------------------------------------------------
(* get_issue_from_git_branch *)

\* Faulty variant: tokens[:1].
get_issue_from_git_branch_one_token(branch_name) ==
    Join(Take(Split(branch_name, HYPHEN), 1), HYPHEN)

get_issue_from_git_branch(branch_name) ==
    LET tokens == Split(branch_name, HYPHEN)
        first_two_tokens == Take(tokens, 2)
    IN  Join(first_two_tokens, HYPHEN)

BranchLexemes == {HYPHEN, "PROJ", "123"}
BranchNames == SeqsUpTo(BranchLexemes, MaxLen)

InitBranch ==
    /\ LoopIdle
    /\ fnState = "ready"
    /\ fnArgs \in BranchNames
    /\ fnResult = <<>>

CallGetIssue ==
    /\ fnState = "ready"
    /\ fnResult' = get_issue_from_git_branch(fnArgs)
    /\ fnState' = "returned"
    /\ UNCHANGED fnArgs

----------------------------------------------------------------------------
(* generate_jira_cli_commands_from_readme *)

NotFoundText == <<"Documentation not found in README">>
ErrorPrefix == "Error: "
HttpErrorPrefix == "HTTP Error: "
ParseErrorText == <<ErrorPrefix, "object of type 'NoneType' has no len()">>

\* BeautifulSoup(readme_content, 'html.parser') raises for an argument that
\* is not markup (not a str); for every str it builds a tree.
ParserRaises(readme_content) == ~readme_content.is_str

\* soup.find('article', class_='markdown-body'): the position of the first
\* start tag, in document order, that is an article with that class; 0 if none.
RECURSIVE FindFrom(_, _)
FindFrom(doc, i) ==
    IF i > Len(doc) THEN 0
    ELSE IF doc[i] = ArtOpen THEN i
    ELSE FindFrom(doc, i + 1)

FindArticle(doc) == FindFrom(doc, 1)

\* The position of the end tag that closes the element opened before
\* position i, where depth articles are open; Len(doc) + 1 when the element
\* is closed by the end of the document.
RECURSIVE ElementEnd(_, _, _)
ElementEnd(doc, i, depth) ==
    IF i > Len(doc) THEN i
    ELSE IF doc[i] \in ArticleOpenTags THEN ElementEnd(doc, i + 1, depth + 1)
    ELSE IF doc[i] = ArtClose
         THEN IF depth = 1 THEN i ELSE ElementEnd(doc, i + 1, depth - 1)
    ELSE ElementEnd(doc, i + 1, depth)

IsText(lexeme) == lexeme \notin MarkupTags

\* element.get_text(): the strings inside the element, tags dropped
GetText(doc, open) ==
    SelectSeq(SubSeq(doc, open + 1, ElementEnd(doc, open + 1, 1) - 1), IsText)

\* [line.strip() for line in lines if line.strip().startswith("$ jira")]
RECURSIVE StrippedCommandLines(_)
StrippedCommandLines(lines) ==
    IF lines = <<>> THEN <<>>
    ELSE LET line == Head(lines)
             rest == StrippedCommandLines(Tail(lines))
         IN  IF StartsWith(Strip(line), <<PFX>>)
             THEN <<Strip(line)>> \o rest ELSE rest

\* Faulty variant: an empty list when the article is missing.
generate_commands_empty_when_missing(readme_content) ==
    IF ParserRaises(readme_content) THEN <<ParseErrorText>>
    ELSE LET article == FindArticle(readme_content.text)
         IN  IF article # 0
             THEN StrippedCommandLines(
                      Split(GetText(readme_content.text, article), LF))
             ELSE <<>>

\* Faulty variant: the selected lines are returned as they are.
generate_commands_keep_unstripped(readme_content) ==
    IF ParserRaises(readme_content) THEN <<ParseErrorText>>
    ELSE LET article == FindArticle(readme_content.text)
         IN  IF article # 0
             THEN SelectSeq(Split(GetText(readme_content.text, article), LF),
                            LAMBDA line : StartsWith(Strip(line), <<PFX>>))
             ELSE <<NotFoundText>>

generate_jira_cli_commands_from_readme(readme_content) ==
    IF ParserRaises(readme_content) THEN <<ParseErrorText>>
    ELSE LET article == FindArticle(readme_content.text)
         IN  IF article # 0
             THEN LET readme_text == GetText(readme_content.text, article)
                      lines == Split(readme_text, LF)
                  IN  StrippedCommandLines(lines)
             ELSE <<NotFoundText>>

DocLexemes == {ArtOpen, ArtOther, ArtClose, PFX, SP, LF, CR, "issue list"}
Documents == SeqsUpTo(DocLexemes, MaxDocLen)
AsStr(text) == [is_str |-> TRUE, text |-> text]
NotAStr == [is_str |-> FALSE, text |-> <<>>]

InitReadme ==
    /\ LoopIdle
    /\ fnState = "ready"
    /\ fnArgs \in {AsStr(d) : d \in Documents} \cup {NotAStr}
    /\ fnResult = <<>>

CallGenerate ==
    /\ fnState = "ready"
    /\ fnResult' = generate_jira_cli_commands_from_readme(fnArgs)
    /\ fnState' = "returned"
    /\ UNCHANGED fnArgs

----------------------------------------------------------------------------
(* run_command_in_directory *)

\* Faulty variant: check=True.
SubprocessRaisesWithCheck(directory_exists, process) ==
    ~directory_exists \/ process.returncode # 0

\* subprocess.run(command, cwd=directory, shell=True, text=True,
\* capture_output=True): raises when the shell cannot be started in cwd;
\* otherwise waits for the command and returns its status and its streams.
\* check is not set, so the status is not looked at.
SubprocessRaises(directory_exists, process) == ~directory_exists

RunRaises(directory_exists, process) ==
    SubprocessRaises(directory_exists, process)

run_command_in_directory(directory_exists, process) ==
    <<process.stdout, process.stderr>>

OutLexemes == {"hi", LF}
Outputs == SeqsUpTo(OutLexemes, MaxOut)
ReturnCodes == {0, 1, 127}
Processes == [returncode : ReturnCodes, stdout : Outputs, stderr : Outputs]

InitShell ==
    /\ LoopIdle
    /\ fnState = "ready"
    /\ fnArgs \in [directory_exists : BOOLEAN, process : Processes]
    /\ fnResult = <<>>

CallRunCommand ==
    /\ fnState = "ready"
    /\ ~RunRaises(fnArgs.directory_exists, fnArgs.process)
    /\ fnResult' = run_command_in_directory(fnArgs.directory_exists, fnArgs.process)
    /\ fnState' = "returned"
    /\ UNCHANGED fnArgs

CallRunCommandRaises ==
    /\ fnState = "ready"
    /\ RunRaises(fnArgs.directory_exists, fnArgs.process)
    /\ fnState' = "raised"
    /\ UNCHANGED <<fnArgs, fnResult>>

----------------------------------------------------------------------------
(* Text files: open(CACHE_FILE, "r") and open(CACHE_FILE, "w") are text    *)
(* mode with newline=None.                                                 *)

\* file.read(): universal newlines, "\r\n" and a lone "\r" are read as "\n"
RECURSIVE ReadText(_)
ReadText(content) ==
    IF content = <<>> THEN <<>>
    ELSE IF Head(content) = CR
         THEN IF Len(content) >= 2 /\ content[2] = LF
              THEN <<LF>> \o ReadText(Tail(Tail(content)))
              ELSE <<LF>> \o ReadText(Tail(content))
    ELSE <<Head(content)>> \o ReadText(Tail(content))

\* file.write(text): every "\n" is written as os.linesep
RECURSIVE WriteText(_, _)
WriteText(text, sep) ==
    IF text = <<>> THEN <<>>
    ELSE (IF Head(text) = LF THEN sep ELSE <<Head(text)>>)
         \o WriteText(Tail(text), sep)

LineSeps == {<<LF>>, <<CR, LF>>}

----------------------------------------------------------------------------
(* fetch_jira_cli_readme *)

ReadmePage == <<ArtOpen, PFX, "issue list", LF, "usage", ArtClose>>
ReadmePageCRLF == <<ArtOpen, "usage", CR, LF, PFX, "issue list", ArtClose>>
Bodies == {ReadmePage, ReadmePageCRLF, <<>>}
StaleCache == <<"stale", CR, "text">>

ConnectionError == [kind |-> "connection_error", status_code |-> 0, text |-> <<>>]
HttpResponse(status, text) ==
    [kind |-> "response", status_code |-> status, text |-> text]

\* What requests.get can come back with: a final response of any status
\* class, or an exception of requests.exceptions that is not an HTTPError.
Responses ==
    {HttpResponse(st, b) : st \in {200, 304}, b \in Bodies}
    \cup {HttpResponse(404, <<>>), HttpResponse(500, <<>>), ConnectionError}

\* response.raise_for_status(): HTTPError for 4xx and 5xx, nothing otherwise
RaisesForStatus(response) ==
    response.status_code >= 400 /\ response.status_code < 600

HttpErrorText(response) ==
    <<HttpErrorPrefix,
      IF response.status_code < 500 THEN "Client Error" ELSE "Server Error">>

ConnectionErrorText == <<ErrorPrefix, "Connection refused">>

\* Faulty variant: the cache file is not looked at before fetching.
fetch_writes_even_if_cached(exists, content, sep, response) ==
    IF response.kind = "connection_error"
    THEN [ret |-> ConnectionErrorText, got |-> TRUE, wrote |-> FALSE,
          file |-> content]
    ELSE IF RaisesForStatus(response)
    THEN [ret |-> HttpErrorText(response), got |-> TRUE, wrote |-> FALSE,
          file |-> content]
    ELSE [ret |-> response.text, got |-> TRUE, wrote |-> TRUE,
          file |-> WriteText(response.text, sep)]

\* The function as a whole: what it returns (ret), whether it made the GET
\* (got), whether it opened the cache file for writing (wrote) and the
\* content the file has afterwards (file).  Opening, reading and writing
\* the file are taken to succeed, except that reading finds no file.
fetch_jira_cli_readme(exists, content, sep, response) ==
    IF exists
    THEN [ret |-> ReadText(content), got |-> FALSE, wrote |-> FALSE,
          file |-> content]
    ELSE IF response.kind = "connection_error"
    THEN [ret |-> ConnectionErrorText, got |-> TRUE, wrote |-> FALSE,
          file |-> content]
    ELSE IF RaisesForStatus(response)
    THEN [ret |-> HttpErrorText(response), got |-> TRUE, wrote |-> FALSE,
          file |-> content]
    ELSE [ret |-> response.text, got |-> TRUE, wrote |-> TRUE,
          file |-> WriteText(response.text, sep)]

----------------------------------------------------------------------------
(* The tools as the agent calls them.  A call is [tool, args]; args and    *)
(* the observation are tuples of texts.                                    *)

ProjectDirectory == <<"YOUR_PROJECT_DIRECTORY">>

get_project_directory == ProjectDirectory

get_jira_cli_update_description_command(issue_key, new_description) ==
    <<"jira issue edit ">> \o issue_key \o <<" -b'">> \o new_description
        \o <<"' --no-input">>

\* jira_cli_commands_tool, given what fetch_jira_cli_readme returned
jira_cli_commands_output(readme_content) ==
    LET generated_commands ==
            generate_jira_cli_commands_from_readme(AsStr(readme_content))
    IN  Join(generated_commands, LF)

BranchArg == <<"PROJ", HYPHEN, "123", HYPHEN, "fix-login">>
CommandArg == <<"git branch --show-current">>

Call(tool, args) == [tool |-> tool, args |-> args]

ToolCalls ==
    { Call("run_command_in_directory", <<ProjectDirectory, CommandArg>>),
      Call("get_issue_from_git_branch", <<BranchArg>>),
      Call("jira_cli_commands_tool", <<>>),
      Call("get_project_directory", <<>>),
      Call("get_jira_cli_update_description_command",
           <<<<"PROJ", HYPHEN, "123">>, <<"new text">>>>) }

AgentProcesses ==
    { [returncode |-> 0, stdout |-> <<"hi", LF>>, stderr |-> <<>>],
      [returncode |-> 1, stdout |-> <<"hi", LF>>, stderr |-> <<"hi">>] }

Prompts == {<<"sync branch">>, <<"status">>}

----------------------------------------------------------------------------
(* The agent: prompt | llm_with_tools | parser, run by AgentExecutor.      *)

\* format_to_openai_tool_messages: for every step the model message that
\* asked for it, once, followed by the tool message with the observation.
RECURSIVE FormatFrom(_, _)
FormatFrom(steps, seen) ==
    IF steps = <<>> THEN <<>>
    ELSE LET step == Head(steps)
             ai   == [type |-> "ai", log |-> step.message_log, tool |-> "",
                      content |-> <<>>]
             tm   == [type |-> "tool", log |-> step.message_log,
                      tool |-> step.action.tool, content |-> step.observation]
         IN  (IF step.message_log \in seen THEN <<tm>> ELSE <<ai, tm>>)
             \o FormatFrom(Tail(steps), seen \cup {step.message_log})

format_to_openai_tool_messages(steps) == FormatFrom(steps, {})

AgentInput(x) ==
    [input |-> x.input,
     git_jira_agent |-> format_to_openai_tool_messages(x.intermediate_steps)]

----------------------------------------------------------------------------
(* The read loop and AgentExecutor. *)

FnIdle == fnState = "unused" /\ fnArgs = <<>> /\ fnResult = <<>>

Init ==
    /\ linesep \in LineSeps
    /\ cacheExists \in BOOLEAN
    /\ cacheContent = IF cacheExists THEN StaleCache ELSE <<>>
    /\ getCount = 0 /\ writeCount = 0 /\ cachedBody = <<>>
    /\ lastFetch = NoFetch
    /\ pc = "Idle" /\ user_prompt = <<>> /\ intermediate_steps = <<>>
    /\ pending = <<>> /\ iterations = 0 /\ modelInput = NoInput
    /\ executedSinceRead = 0
    /\ FnIdle

\* Faulty variant: the steps of the previous run are threaded into the next.
ReadConsoleKeepingSteps ==
    /\ pc = "Idle"
    /\ \E line \in Prompts :
        /\ user_prompt' = line
        /\ modelInput' = AgentInput([input |-> line,
                                     intermediate_steps |-> intermediate_steps])
    /\ iterations' = 0
    /\ pending' = <<>>
    /\ executedSinceRead' = 0
    /\ pc' = "Dispatched"
    /\ UNCHANGED <<intermediate_steps, cacheVars, fnVars>>

\* Faulty variant: the console is read while tool calls are outstanding.
ReadConsoleAnywhere ==
    /\ pc \in {"Idle", "ToolExecuting"}
    /\ \E line \in Prompts :
        /\ user_prompt' = line
        /\ modelInput' = AgentInput([input |-> line, intermediate_steps |-> <<>>])
    /\ intermediate_steps' = <<>>
    /\ iterations' = 0
    /\ pending' = <<>>
    /\ executedSinceRead' = 0
    /\ pc' = "Dispatched"
    /\ UNCHANGED <<cacheVars, fnVars>>

\* user_prompt = input("Prompt: "), then agent_executor.stream({"input": ...})
\* up to its first model call: a run starts with no intermediate steps.
\* (Closing the console or interrupting the process ends it from outside and
\* is not a step of the program.)
ReadConsole ==
    /\ pc = "Idle"
    /\ \E line \in Prompts :
        /\ user_prompt' = line
        /\ modelInput' = AgentInput([input |-> line, intermediate_steps |-> <<>>])
    /\ intermediate_steps' = <<>>
    /\ iterations' = 0
    /\ pending' = <<>>
    /\ executedSinceRead' = 0
    /\ pc' = "Dispatched"
    /\ UNCHANGED <<cacheVars, fnVars>>

\* The model answers with a final text: AgentFinish ends the stream.
ModelFinishes ==
    /\ pc = "Dispatched"
    /\ pc' = "Idle"
    /\ UNCHANGED <<user_prompt, intermediate_steps, pending, iterations,
                   modelInput, executedSinceRead, cacheVars, fnVars>>

\* The model answers with tool calls.
ModelCallsTools ==
    /\ pc = "Dispatched"
    /\ \E calls \in SeqsUpTo(ToolCalls, MaxSteps - Len(intermediate_steps)) :
        /\ calls # <<>>
        /\ pending' = calls
    /\ pc' = "ToolExecuting"
    /\ UNCHANGED <<user_prompt, intermediate_steps, iterations, modelInput,
                   executedSinceRead, cacheVars, fnVars>>

\* The model call raises (the API is unreachable, no credentials).
ModelCallRaises ==
    /\ pc = "Dispatched"
    /\ pc' = "Crashed"
    /\ UNCHANGED <<user_prompt, intermediate_steps, pending, iterations,
                   modelInput, executedSinceRead, cacheVars, fnVars>>

\* A tool returned: the step is recorded; after the last call of the
\* response the iteration ends, and the model is called again unless
\* max_iterations is reached.
Observe(observation) ==
    LET step  == [action |-> Head(pending), observation |-> observation,
                  message_log |-> iterations]
        steps == Append(intermediate_steps, step)
        more  == Tail(pending) # <<>>
    IN  /\ intermediate_steps' = steps
        /\ pending' = Tail(pending)
        /\ executedSinceRead' = executedSinceRead + 1
        /\ iterations' = IF more THEN iterations ELSE iterations + 1
        /\ pc' = IF more THEN "ToolExecuting"
                 ELSE IF iterations + 1 < MaxIterations THEN "Dispatched"
                 ELSE "Idle"
        /\ modelInput' =
               IF ~more /\ iterations + 1 < MaxIterations
               THEN AgentInput([input |-> user_prompt,
                                intermediate_steps |-> steps])
               ELSE modelInput
        /\ UNCHANGED user_prompt

Executing(tool) ==
    pc = "ToolExecuting" /\ pending # <<>> /\ Head(pending).tool = tool

ExecRunCommand ==
    /\ Executing("run_command_in_directory")
    /\ \E exists \in BOOLEAN, process \in AgentProcesses :
        /\ ~RunRaises(exists, process)
        /\ Observe(run_command_in_directory(exists, process))
    /\ UNCHANGED <<cacheVars, fnVars>>

\* The tool raises; AgentExecutor re-raises and the loop has no handler.
ExecRunCommandRaises ==
    /\ Executing("run_command_in_directory")
    /\ \E exists \in BOOLEAN, process \in AgentProcesses :
        RunRaises(exists, process)
    /\ pc' = "Crashed"
    /\ UNCHANGED <<user_prompt, intermediate_steps, pending, iterations,
                   modelInput, executedSinceRead, cacheVars, fnVars>>

ExecGetIssue ==
    /\ Executing("get_issue_from_git_branch")
    /\ Observe(<<get_issue_from_git_branch(Head(pending).args[1])>>)
    /\ UNCHANGED <<cacheVars, fnVars>>

ExecGetProjectDirectory ==
    /\ Executing("get_project_directory")
    /\ Observe(<<get_project_directory>>)
    /\ UNCHANGED <<cacheVars, fnVars>>

ExecUpdateDescriptionCommand ==
    /\ Executing("get_jira_cli_update_description_command")
    /\ Observe(<<get_jira_cli_update_description_command(
                     Head(pending).args[1], Head(pending).args[2])>>)
    /\ UNCHANGED <<cacheVars, fnVars>>

\* jira_cli_commands_tool: fetch (reading or writing the cache file), then
\* generate, then join.
ExecJiraCliCommands ==
    /\ Executing("jira_cli_commands_tool")
    /\ cacheExists \/ getCount < MaxGets
    /\ \E response \in (IF cacheExists THEN {NoResponse} ELSE Responses) :
        LET f == fetch_jira_cli_readme(cacheExists, cacheContent, linesep,
                                       response)
        IN  /\ cacheExists' = (cacheExists \/ f.wrote)
            /\ cacheContent' = f.file
            /\ getCount' = IF f.got THEN getCount + 1 ELSE getCount
            /\ writeCount' = IF f.wrote THEN writeCount + 1 ELSE writeCount
            /\ cachedBody' = IF f.wrote THEN response.text ELSE cachedBody
            /\ lastFetch' = [called |-> TRUE, had_file |-> cacheExists,
                             response |-> response, ret |-> f.ret,
                             gets |-> IF f.got THEN 1 ELSE 0]
            /\ Observe(<<jira_cli_commands_output(f.ret)>>)
    /\ UNCHANGED <<linesep, fnVars>>

Next ==
    \/ ReadConsole
    \/ ModelFinishes
    \/ ModelCallsTools
    \/ ModelCallRaises
    \/ ExecRunCommand
    \/ ExecRunCommandRaises
    \/ ExecGetIssue
    \/ ExecGetProjectDirectory
    \/ ExecUpdateDescriptionCommand
    \/ ExecJiraCliCommands

Spec == Init /\ [][Next]_vars

----------------------------------------------------------------------------
(* The functions on their own, over all inputs up to the bounds. *)

NextBranch == CallGetIssue /\ UNCHANGED <<cacheVars, agentVars>>
SpecBranch == InitBranch /\ [][NextBranch]_vars

NextReadme == CallGenerate /\ UNCHANGED <<cacheVars, agentVars>>
SpecReadme == InitReadme /\ [][NextReadme]_vars

NextShell ==
    \/ CallRunCommand /\ UNCHANGED <<cacheVars, agentVars>>
    \/ CallRunCommandRaises /\ UNCHANGED <<cacheVars, agentVars>>
SpecShell == InitShell /\ [][NextShell]_vars

----------------------------------------------------------------------------
(* Properties. *)

Contains(text, part) ==
    \E i \in 0..(Len(text) - Len(part)) :
        SubSeq(text, i + 1, i + Len(part)) = part

IsErrorString(text) ==
    StartsWith(text, <<ErrorPrefix>>) \/ StartsWith(text, <<HttpErrorPrefix>>)

\* The process found no cache file when it started.
StartedWithoutCache == ~cacheExists \/ writeCount >= 1

Is2xx(response) ==
    response.kind = "response"
    /\ response.status_code >= 200 /\ response.status_code < 300

\* The fetch failed as the specification counts it: no response at all, or
\* a response whose status is not 2xx.
FetchFailed(response) ==
    response.kind = "connection_error"
    \/ (response.kind = "response" /\ ~Is2xx(response))

\* C1: Starting without a cache file, a call that finds no file makes
\* exactly one GET and, when the GET succeeds, creates the file and returns
\* the response body; a call that finds the file makes no GET and returns
\* the content that was cached, that is, the body the first call stored.
C1_CacheRoundTrip ==
    (lastFetch.called /\ StartedWithoutCache) =>
        IF ~lastFetch.had_file
        THEN /\ lastFetch.gets = 1
             /\ Is2xx(lastFetch.response) =>
                    /\ cacheExists /\ writeCount = 1
                    /\ cachedBody = lastFetch.response.text
                    /\ lastFetch.ret = lastFetch.response.text
        ELSE /\ lastFetch.gets = 0
             /\ lastFetch.ret = cachedBody

\* C2: A call that finds no cache file and whose fetch fails (no response,
\* or a status that is not 2xx) returns an error string and leaves the cache
\* file absent; every call that finds no cache file makes the GET.
C2_FailedFetchLeavesNoCache ==
    (lastFetch.called /\ ~lastFetch.had_file) =>
        /\ lastFetch.gets = 1
        /\ FetchFailed(lastFetch.response) =>
               /\ IsErrorString(lastFetch.ret)
               /\ ~cacheExists
               /\ writeCount = 0

\* The steps of the current run made by jira_cli_commands_tool; the last of
\* them is the call recorded in lastFetch.
JiraSteps ==
    {i \in 1..Len(intermediate_steps) :
        intermediate_steps[i].action.tool = "jira_cli_commands_tool"}

LastJiraStep ==
    intermediate_steps[CHOOSE i \in JiraSteps : \A j \in JiraSteps : j <= i]

\* C3: When the fetch ended in an HTTP error, the output of
\* jira_cli_commands_tool, which goes back to the model, carries the error
\* string that the fetch produced.
C3_HttpErrorReachesModel ==
    (JiraSteps # {} /\ lastFetch.called
        /\ StartsWith(lastFetch.ret, <<HttpErrorPrefix>>)) =>
        Contains(LastJiraStep.observation[1], lastFetch.ret)

\* The positions of the hyphens of a branch name.
HyphensOf(name) == {i \in 1..Len(name) : name[i] = HYPHEN}

\* C4: The result is the branch name cut just before its second hyphen, and
\* the whole branch name when it has fewer than two hyphens.
C4_FirstTwoSegments ==
    (fnState # "ready") =>
        /\ fnState = "returned"
        /\ LET hy == HyphensOf(fnArgs)
           IN  IF Cardinality(hy) < 2 THEN fnResult = fnArgs
               ELSE \E second \in hy :
                       /\ Cardinality({i \in hy : i < second}) = 1
                       /\ fnResult = SubSeq(fnArgs, 1, second - 1)

C4_Witness ==
    /\ fnState = "returned"
    /\ Cardinality(HyphensOf(fnArgs)) >= 2
    /\ fnResult = <<"PROJ", HYPHEN, "123">>
    /\ fnResult # fnArgs

HasArticle(doc) == \E i \in 1..Len(doc) : doc[i] = ArtOpen

\* The lines of the text of the first markdown-body article.
ElementLines(doc) == Split(GetText(doc, FindArticle(doc)), LF)

\* The k-th smallest member of a set of numbers.
KthOf(S, k) == CHOOSE i \in S : Cardinality({j \in S : j < i}) = k - 1

\* result is the lines at the positions sel, in order, each changed by how
ListsLines(result, lines, sel, how(_, _)) ==
    /\ Len(result) = Cardinality(sel)
    /\ \A k \in 1..Len(result) : how(result[k], lines[KthOf(sel, k)])

Unchanged(out, line) == out = line

\* out is line without its leading and trailing whitespace
StrippedOf(out, line) ==
    \E a, b \in 0..Len(line) :
        /\ a + b <= Len(line)
        /\ out = SubSeq(line, a + 1, Len(line) - b)
        /\ \A j \in 1..a : line[j] \in Whitespace
        /\ \A j \in (Len(line) - b + 1)..Len(line) : line[j] \in Whitespace
        /\ out # <<>> => (out[1] \notin Whitespace /\ out[Len(out)] \notin Whitespace)

\* the first lexeme of line that is not whitespace is "$ jira"
BeginsWithPrefixAfterBlanks(line) ==
    \E a \in 1..Len(line) :
        line[a] = PFX /\ \A j \in 1..(a - 1) : line[j] \in Whitespace

\* C5 as stated: with the article present, the result is exactly the lines
\* of its text that begin with "$ jira", in order and unchanged.
C5_LinesUnchanged ==
    (fnState = "returned" /\ fnArgs.is_str /\ HasArticle(fnArgs.text)) =>
        LET lines == ElementLines(fnArgs.text)
        IN  ListsLines(fnResult, lines,
                       {i \in 1..Len(lines) : StartsWith(lines[i], <<PFX>>)},
                       Unchanged)

\* C5 amended: with the article present, the result is, in order, the
\* stripped form of exactly those lines of its text that begin with
\* "$ jira" once leading whitespace is removed.
C5_LinesStripped ==
    (fnState = "returned" /\ fnArgs.is_str /\ HasArticle(fnArgs.text)) =>
        LET lines == ElementLines(fnArgs.text)
        IN  ListsLines(fnResult, lines,
                       {i \in 1..Len(lines) : BeginsWithPrefixAfterBlanks(lines[i])},
                       StrippedOf)

C5_Witness ==
    /\ fnState = "returned" /\ fnArgs.is_str
    /\ fnArgs.text = <<ArtOpen, SP, PFX, LF>>
    /\ fnResult = <<<<PFX>>>>

\* C6: Without a matching article the result is the one sentinel string;
\* when the parser raises the result is one error string; the call returns
\* in both cases and the result is not empty.
C6_SentinelOrError ==
    (fnState # "ready") =>
        /\ fnState = "returned"
        /\ (fnArgs.is_str /\ ~HasArticle(fnArgs.text)) =>
               fnResult = <<NotFoundText>>
        /\ ~fnArgs.is_str =>
               Len(fnResult) = 1 /\ StartsWith(fnResult[1], <<ErrorPrefix>>)

C6_Witness ==
    /\ fnState = "returned" /\ fnArgs.is_str
    /\ fnArgs.text = <<ArtOther, PFX, ArtClose>>
    /\ fnResult = <<NotFoundText>>

\* C7: When the command was run, whatever its exit status, the call returns
\* the pair (stdout, stderr) of the command and does not raise.
C7_ExitStatusIgnored ==
    (fnState # "ready" /\ fnArgs.directory_exists) =>
        /\ fnState = "returned"
        /\ fnResult = <<fnArgs.process.stdout, fnArgs.process.stderr>>

C7_Witness ==
    /\ fnState = "returned"
    /\ fnArgs.process.returncode # 0
    /\ fnArgs.process.stdout = <<"hi", LF>>
    /\ fnResult[1] = <<"hi", LF>>

LoopStates == {"Idle", "Dispatched", "ToolExecuting"}

\* A step that takes a new console line or drops the steps of a run.
ReadsConsole == user_prompt' # user_prompt
                    \/ Len(intermediate_steps') < Len(intermediate_steps)
                    \/ executedSinceRead' < executedSinceRead

\* The steps of the cycle: a console read happens only in Idle with no tool
\* call outstanding and dispatches the line; a dispatched prompt goes to
\* its tools or back to Idle; tools run one after another and then the
\* model is called again or the loop is back in Idle; Idle can always read.
CycleStep ==
    /\ ReadsConsole => (pc = "Idle" /\ pc' = "Dispatched")
    /\ (pc = "Idle" /\ pc' \in LoopStates) => pc' = "Dispatched"
    /\ (pc = "Dispatched" /\ pc' \in LoopStates) =>
           pc' \in {"ToolExecuting", "Idle"}
    /\ (pc = "ToolExecuting" /\ pc' \in LoopStates) =>
           /\ Len(intermediate_steps') = Len(intermediate_steps) + 1
           /\ pending' = Tail(pending)
           /\ pc' = "ToolExecuting" <=> pending' # <<>>
    /\ pc' = "Idle" => pending' = <<>>
    /\ pc = "Idle" => ENABLED ReadConsole

\* C9 as stated: the loop only ever takes steps of the cycle and never
\* leaves the three states.
C9_LoopNeverExits == [][CycleStep /\ pc' \in LoopStates]_vars

\* C9 amended: the loop only ever takes steps of the cycle, or stops for
\* good, while a prompt is being processed, because an exception nothing
\* handles ended the process.
C9_LoopExitsOnlyByException ==
    [][ /\ CycleStep
        /\ pc' \in LoopStates \cup {"Crashed"}
        /\ pc' = "Crashed" => pc \in {"Dispatched", "ToolExecuting"}
        /\ pc # "Crashed" ]_vars

C9_Witness ==
    /\ pc = "Idle"
    /\ executedSinceRead >= 2
    /\ iterations >= 1
    /\ pending = <<>>

ToolMessages(messages) == SelectSeq(messages, LAMBDA m : m.type = "tool")

\* C10: Whenever the model is called, its input is the console line of the
\* current iteration and one tool message per tool run since that line was
\* read, carrying that tool's observation; right after a read there is no
\* message, whatever earlier iterations did.
C10_IterationsIndependent ==
    pc = "Dispatched" =>
        /\ modelInput.input = user_prompt
        /\ executedSinceRead = 0 => modelInput.git_jira_agent = <<>>
        /\ LET tms == ToolMessages(modelInput.git_jira_agent)
           IN  /\ Len(tms) = executedSinceRead
               /\ Len(intermediate_steps) = executedSinceRead
               /\ \A k \in 1..Len(tms) :
                      tms[k].content = intermediate_steps[k].observation

C10_Witness ==
    /\ pc = "Dispatched"
    /\ executedSinceRead = 0
    /\ lastFetch.called
    /\ modelInput.git_jira_agent = <<>>

====
